---- MODULE Spec2Model ----
(***************************************************************************)
(* A model of the pki-types crate (src/src/lib.rs): the Der byte container *)
(* and its semantic wrappers, the PrivateKeyDer sum type, TrustAnchor,     *)
(* AlgorithmIdentifier with the SignatureVerificationAlgorithm contract,   *)
(* and UnixTime.                                                           *)
(*                                                                         *)
(* The crate is a library of values; the state machine is a client that    *)
(* holds values in slots and applies the public operations to them.  Three *)
(* specifications share the variables: SpecDer (wrappers, keys and trust   *)
(* anchors), SpecVerify (verifier selection and the verification contract) *)
(* and SpecTime (UnixTime).                                                *)
(***************************************************************************)
EXTENDS Integers, Sequences, FiniteSets, TLC

VARIABLES
    val,        \* slot -> the value held: a wrapper, a PrivateKeyDer or a
                \* TrustAnchor (SpecDer), a UnixTime (SpecTime), or None
    orig,       \* slot -> how the value was constructed (ghost)
    out,        \* the result of the last operation
    registry,   \* SpecVerify: the caller's registered verifiers
    cert,       \* SpecVerify: the declared identifiers and the signed data
    selected,   \* SpecVerify: the verifier selection picked
    calls       \* SpecVerify: number of verify_signature calls made

vars == <<val, orig, out, registry, cert, selected, calls>>

(***************************************************************************)
(* Bounds                                                                  *)
(***************************************************************************)
MaxLen == 2                     \* longest byte sequence held by a wrapper
MaxAnchorLen == 1               \* longest byte sequence held by a TrustAnchor field
Bytes == {0, 1}                 \* byte values used (of 0..255)
Slots == {1, 2}

ByteSeqs == UNION {[1..n -> Bytes] : n \in 0..MaxLen}
AnchorSeqs == UNION {[1..n -> Bytes] : n \in 0..MaxAnchorLen}

None == [kind |-> "None"]
Idle == [op |-> "idle"]

(***************************************************************************)
(* DerInner and Der                                                        *)
(***************************************************************************)
\* enum DerInner { Owned(Vec<u8>), Borrowed(&[u8]) }
DerInner_Owned(vec) == [tag |-> "Owned", vec |-> vec]
DerInner_Borrowed(slice) == [tag |-> "Borrowed", slice |-> slice]

\* Der::from_slice and From<&[u8]> for Der
Der_from_slice(slice) == DerInner_Borrowed(slice)

\* From<Vec<u8>> for Der
Der_from_vec(vec) == DerInner_Owned(vec)

\* variant: the Borrowed arm yields the slice without its first byte
Der_as_ref_dropping_first(d) ==
    CASE d.tag = "Owned" -> d.vec
      [] d.tag = "Borrowed" -> IF d.slice = <<>> THEN <<>> ELSE Tail(d.slice)

\* AsRef<[u8]> for Der: match on the representation
Der_as_ref(d) ==
    CASE d.tag = "Owned" -> d.vec
      [] d.tag = "Borrowed" -> d.slice

\* Deref for Der
Der_deref(d) == Der_as_ref(d)

\* #[derive(PartialEq)] on DerInner: same variant and equal payloads
DerInner_eq(x, y) ==
    /\ x.tag = y.tag
    /\ CASE x.tag = "Owned" -> x.vec = y.vec
         [] x.tag = "Borrowed" -> x.slice = y.slice

\* #[derive(PartialEq)] on Der
Der_eq(x, y) == DerInner_eq(x, y)

\* variant: the clone of an Owned value gets a fresh, empty Vec
DerInner_clone_emptying(d) ==
    CASE d.tag = "Owned" -> DerInner_Owned(<<>>)
      [] d.tag = "Borrowed" -> DerInner_Borrowed(d.slice)

\* #[derive(Clone)] on DerInner: the Vec is copied, the slice reference is copied
DerInner_clone(d) ==
    CASE d.tag = "Owned" -> DerInner_Owned(d.vec)
      [] d.tag = "Borrowed" -> DerInner_Borrowed(d.slice)

\* #[derive(Clone)] on Der
Der_clone(d) == DerInner_clone(d)

(***************************************************************************)
(* Debug formatting.  A Debug text is the sequence of its tokens.         *)
(***************************************************************************)
RECURSIVE fmt_list_items(_)
fmt_list_items(s) ==
    IF s = <<>> THEN <<>>
    ELSE IF Len(s) = 1 THEN <<ToString(s[1])>>
    ELSE <<ToString(s[1]), ", ">> \o fmt_list_items(Tail(s))

\* Debug for [u8]: a bracketed, comma-separated list of the bytes in decimal
fmt_slice(s) == <<"[">> \o fmt_list_items(s) \o <<"]">>

\* Debug for &str: the text in double quotes
fmt_str(s) == <<"\"" \o s \o "\"">>

\* Formatter::debug_tuple(name).field(f).finish()
debug_tuple(name, field) == <<name, "(">> \o field \o <<")">>

\* impl fmt::Debug for Der
Der_fmt(d) == debug_tuple("Der", fmt_slice(Der_as_ref(d)))

(***************************************************************************)
(* The semantic wrappers: a wrapper is its type name and the Der it holds  *)
(***************************************************************************)
Wrap(kind, der) == [kind |-> kind, der |-> der]

\* impl From<&[u8]> for PrivatePkcs1KeyDer
PrivatePkcs1KeyDer_from_slice(slice) == Wrap("PrivatePkcs1KeyDer", DerInner_Borrowed(slice))
\* impl From<Vec<u8>> for PrivatePkcs1KeyDer
PrivatePkcs1KeyDer_from_vec(vec) == Wrap("PrivatePkcs1KeyDer", DerInner_Owned(vec))
\* PrivatePkcs1KeyDer::secret_pkcs1_der
secret_pkcs1_der(key) == Der_as_ref(key.der)

\* impl From<&[u8]> for PrivateSec1KeyDer
PrivateSec1KeyDer_from_slice(slice) == Wrap("PrivateSec1KeyDer", DerInner_Borrowed(slice))
\* impl From<Vec<u8>> for PrivateSec1KeyDer
PrivateSec1KeyDer_from_vec(vec) == Wrap("PrivateSec1KeyDer", DerInner_Owned(vec))
\* PrivateSec1KeyDer::secret_sec1_der
secret_sec1_der(key) == Der_as_ref(key.der)

\* impl From<&[u8]> for PrivatePkcs8KeyDer
PrivatePkcs8KeyDer_from_slice(slice) == Wrap("PrivatePkcs8KeyDer", DerInner_Borrowed(slice))
\* impl From<Vec<u8>> for PrivatePkcs8KeyDer
PrivatePkcs8KeyDer_from_vec(vec) == Wrap("PrivatePkcs8KeyDer", DerInner_Owned(vec))
\* PrivatePkcs8KeyDer::secret_pkcs8_der
secret_pkcs8_der(key) == Der_as_ref(key.der)

\* impl From<&[u8]> for CertificateRevocationListDer
CertificateRevocationListDer_from_slice(slice) ==
    Wrap("CertificateRevocationListDer", Der_from_slice(slice))
\* impl From<Vec<u8>> for CertificateRevocationListDer
CertificateRevocationListDer_from_vec(vec) ==
    Wrap("CertificateRevocationListDer", Der_from_vec(vec))
\* impl AsRef<[u8]> for CertificateRevocationListDer
CertificateRevocationListDer_as_ref(crl) == Der_as_ref(crl.der)
\* impl Deref for CertificateRevocationListDer
CertificateRevocationListDer_deref(crl) == CertificateRevocationListDer_as_ref(crl)

\* impl From<&[u8]> for CertificateDer
CertificateDer_from_slice(slice) == Wrap("CertificateDer", Der_from_slice(slice))
\* impl From<Vec<u8>> for CertificateDer
CertificateDer_from_vec(vec) == Wrap("CertificateDer", Der_from_vec(vec))
\* impl AsRef<[u8]> for CertificateDer
CertificateDer_as_ref(cert_der) == Der_as_ref(cert_der.der)
\* impl Deref for CertificateDer
CertificateDer_deref(cert_der) == CertificateDer_as_ref(cert_der)

\* variant: the Debug text a derived impl would give, with the bytes
PrivatePkcs1KeyDer_fmt_derived(key) == debug_tuple("PrivatePkcs1KeyDer", Der_fmt(key.der))
\* impl fmt::Debug for PrivatePkcs1KeyDer
PrivatePkcs1KeyDer_fmt(key) == debug_tuple("PrivatePkcs1KeyDer", fmt_str("[secret key elided]"))
\* impl fmt::Debug for PrivateSec1KeyDer: the label in the source is "PrivatePkcs1KeyDer"
PrivateSec1KeyDer_fmt(key) == debug_tuple("PrivatePkcs1KeyDer", fmt_str("[secret key elided]"))
\* impl fmt::Debug for PrivatePkcs8KeyDer: the label in the source is "PrivatePkcs1KeyDer"
PrivatePkcs8KeyDer_fmt(key) == debug_tuple("PrivatePkcs1KeyDer", fmt_str("[secret key elided]"))
\* #[derive(Debug)] on CertificateRevocationListDer
CertificateRevocationListDer_fmt(crl) ==
    debug_tuple("CertificateRevocationListDer", Der_fmt(crl.der))
\* #[derive(Debug)] on CertificateDer
CertificateDer_fmt(cert_der) == debug_tuple("CertificateDer", Der_fmt(cert_der.der))

KeyKinds == {"PrivatePkcs1KeyDer", "PrivateSec1KeyDer", "PrivatePkcs8KeyDer"}
PublicKinds == {"Der", "CertificateDer", "CertificateRevocationListDer"}
WrapperKinds == KeyKinds \cup PublicKinds

(***************************************************************************)
(* PrivateKeyDer: enum { Pkcs1(..), Sec1(..), Pkcs8(..) }                  *)
(***************************************************************************)
PrivateKeyDer_Pkcs1(key) == [kind |-> "PrivateKeyDer", variant |-> "Pkcs1", key |-> key]
PrivateKeyDer_Sec1(key) == [kind |-> "PrivateKeyDer", variant |-> "Sec1", key |-> key]
PrivateKeyDer_Pkcs8(key) == [kind |-> "PrivateKeyDer", variant |-> "Pkcs8", key |-> key]

\* impl From<PrivatePkcs1KeyDer> for PrivateKeyDer
PrivateKeyDer_from_pkcs1(key) == PrivateKeyDer_Pkcs1(key)
\* variant: the Sec1 conversion builds the Pkcs1 variant
PrivateKeyDer_from_sec1_as_pkcs1(key) == PrivateKeyDer_Pkcs1(key)
\* impl From<PrivateSec1KeyDer> for PrivateKeyDer
PrivateKeyDer_from_sec1(key) == PrivateKeyDer_Sec1(key)
\* impl From<PrivatePkcs8KeyDer> for PrivateKeyDer
PrivateKeyDer_from_pkcs8(key) == PrivateKeyDer_Pkcs8(key)

\* PrivateKeyDer::secret_der: dispatch on the variant held
secret_der(k) ==
    CASE k.variant = "Pkcs1" -> secret_pkcs1_der(k.key)
      [] k.variant = "Sec1" -> secret_sec1_der(k.key)
      [] k.variant = "Pkcs8" -> secret_pkcs8_der(k.key)

\* #[derive(Debug)] on PrivateKeyDer: the variant name around the key's own Debug
PrivateKeyDer_fmt(k) ==
    CASE k.variant = "Pkcs1" -> debug_tuple("Pkcs1", PrivatePkcs1KeyDer_fmt(k.key))
      [] k.variant = "Sec1" -> debug_tuple("Sec1", PrivateSec1KeyDer_fmt(k.key))
      [] k.variant = "Pkcs8" -> debug_tuple("Pkcs8", PrivatePkcs8KeyDer_fmt(k.key))

\* #[derive(PartialEq)] on the wrapper structs: equality of the Der inside
Wrapper_eq(x, y) == Der_eq(x.der, y.der)

\* #[derive(PartialEq)] on PrivateKeyDer: same variant and equal keys
PrivateKeyDer_eq(x, y) == x.variant = y.variant /\ Wrapper_eq(x.key, y.key)

(***************************************************************************)
(* TrustAnchor { subject, subject_public_key_info, name_constraints }      *)
(***************************************************************************)
Option_None == [some |-> FALSE]
Option_Some(x) == [some |-> TRUE, x |-> x]

\* the struct literal; all three fields are pub
TrustAnchor(subject, spki, nc) ==
    [kind |-> "TrustAnchor", subject |-> subject, subject_public_key_info |-> spki,
     name_constraints |-> nc]

\* <[u8]>::to_owned: a fresh Vec holding a copy of each byte of the slice
slice_to_owned(slice) == [i \in 1..Len(slice) |-> slice[i]]

\* variant: the fields are cloned as they are, so a Borrowed field stays Borrowed
TrustAnchor_to_owned_by_clone(t) ==
    TrustAnchor(Der_clone(t.subject), Der_clone(t.subject_public_key_info),
                IF t.name_constraints.some
                THEN Option_Some(Der_clone(t.name_constraints.x))
                ELSE Option_None)

\* TrustAnchor::to_owned
TrustAnchor_to_owned(t) ==
    TrustAnchor(Der_from_vec(slice_to_owned(Der_as_ref(t.subject))),
                Der_from_vec(slice_to_owned(Der_as_ref(t.subject_public_key_info))),
                IF t.name_constraints.some
                THEN Option_Some(Der_from_vec(slice_to_owned(Der_as_ref(t.name_constraints.x))))
                ELSE Option_None)

\* #[derive(Clone)] on TrustAnchor: each field is cloned
TrustAnchor_clone(t) ==
    TrustAnchor(Der_clone(t.subject), Der_clone(t.subject_public_key_info),
                IF t.name_constraints.some
                THEN Option_Some(Der_clone(t.name_constraints.x))
                ELSE Option_None)

\* #[derive(PartialEq)] on TrustAnchor: field by field
TrustAnchor_eq(x, y) ==
    /\ Der_eq(x.subject, y.subject)
    /\ Der_eq(x.subject_public_key_info, y.subject_public_key_info)
    /\ x.name_constraints.some = y.name_constraints.some
    /\ x.name_constraints.some => Der_eq(x.name_constraints.x, y.name_constraints.x)

\* #[derive(Debug)] on TrustAnchor: the struct name and each field with its name
TrustAnchor_fmt(t) ==
    <<"TrustAnchor", " { ", "subject", ": ">> \o Der_fmt(t.subject)
    \o <<", ", "subject_public_key_info", ": ">> \o Der_fmt(t.subject_public_key_info)
    \o <<", ", "name_constraints", ": ">>
    \o (IF t.name_constraints.some
        THEN debug_tuple("Some", Der_fmt(t.name_constraints.x))
        ELSE <<"None">>)
    \o <<" }">>

AnchorDers ==
    {Der_from_slice(B) : B \in AnchorSeqs} \cup {Der_from_vec(B) : B \in AnchorSeqs}
AnchorOptions == {Option_None} \cup {Option_Some(d) : d \in AnchorDers}

(***************************************************************************)
(* Dispatch on the type of the value held in a slot                        *)
(***************************************************************************)
\* the From<&[u8]> constructor of each type
From_slice(kind, slice) ==
    CASE kind = "Der" -> Wrap("Der", Der_from_slice(slice))
      [] kind = "CertificateDer" -> CertificateDer_from_slice(slice)
      [] kind = "CertificateRevocationListDer" -> CertificateRevocationListDer_from_slice(slice)
      [] kind = "PrivatePkcs1KeyDer" -> PrivatePkcs1KeyDer_from_slice(slice)
      [] kind = "PrivateSec1KeyDer" -> PrivateSec1KeyDer_from_slice(slice)
      [] kind = "PrivatePkcs8KeyDer" -> PrivatePkcs8KeyDer_from_slice(slice)

\* the From<Vec<u8>> constructor of each type
From_vec(kind, vec) ==
    CASE kind = "Der" -> Wrap("Der", Der_from_vec(vec))
      [] kind = "CertificateDer" -> CertificateDer_from_vec(vec)
      [] kind = "CertificateRevocationListDer" -> CertificateRevocationListDer_from_vec(vec)
      [] kind = "PrivatePkcs1KeyDer" -> PrivatePkcs1KeyDer_from_vec(vec)
      [] kind = "PrivateSec1KeyDer" -> PrivateSec1KeyDer_from_vec(vec)
      [] kind = "PrivatePkcs8KeyDer" -> PrivatePkcs8KeyDer_from_vec(vec)

\* the byte accessor of each type
Accessor(v) ==
    CASE v.kind = "Der" -> Der_as_ref(v.der)
      [] v.kind = "CertificateDer" -> CertificateDer_as_ref(v)
      [] v.kind = "CertificateRevocationListDer" -> CertificateRevocationListDer_as_ref(v)
      [] v.kind = "PrivatePkcs1KeyDer" -> secret_pkcs1_der(v)
      [] v.kind = "PrivateSec1KeyDer" -> secret_sec1_der(v)
      [] v.kind = "PrivatePkcs8KeyDer" -> secret_pkcs8_der(v)
      [] v.kind = "PrivateKeyDer" -> secret_der(v)

\* the Deref impl of each type that has one
Deref(v) ==
    CASE v.kind = "Der" -> Der_deref(v.der)
      [] v.kind = "CertificateDer" -> CertificateDer_deref(v)
      [] v.kind = "CertificateRevocationListDer" -> CertificateRevocationListDer_deref(v)

\* the Debug impl of each type
Fmt(v) ==
    CASE v.kind = "Der" -> Der_fmt(v.der)
      [] v.kind = "CertificateDer" -> CertificateDer_fmt(v)
      [] v.kind = "CertificateRevocationListDer" -> CertificateRevocationListDer_fmt(v)
      [] v.kind = "PrivatePkcs1KeyDer" -> PrivatePkcs1KeyDer_fmt(v)
      [] v.kind = "PrivateSec1KeyDer" -> PrivateSec1KeyDer_fmt(v)
      [] v.kind = "PrivatePkcs8KeyDer" -> PrivatePkcs8KeyDer_fmt(v)
      [] v.kind = "PrivateKeyDer" -> PrivateKeyDer_fmt(v)
      [] v.kind = "TrustAnchor" -> TrustAnchor_fmt(v)

\* the PartialEq impl of each type (both operands have the same type)
Eq(x, y) ==
    CASE x.kind = "PrivateKeyDer" -> PrivateKeyDer_eq(x, y)
      [] x.kind = "TrustAnchor" -> TrustAnchor_eq(x, y)
      [] OTHER -> Wrapper_eq(x, y)

\* the From impl into PrivateKeyDer of each key wrapper
Into(key) ==
    CASE key.kind = "PrivatePkcs1KeyDer" -> PrivateKeyDer_from_pkcs1(key)
      [] key.kind = "PrivateSec1KeyDer" -> PrivateKeyDer_from_sec1(key)
      [] key.kind = "PrivatePkcs8KeyDer" -> PrivateKeyDer_from_pkcs8(key)

\* #[derive(Clone)] on Der, CertificateDer and CertificateRevocationListDer
Wrapper_clone(v) == Wrap(v.kind, Der_clone(v.der))

\* the Clone impl of each type that has one
Clone(v) == IF v.kind = "TrustAnchor" THEN TrustAnchor_clone(v) ELSE Wrapper_clone(v)

\* what a value's public read accessors yield: the bytes of a wrapper or key, the
\* bytes of each field of a TrustAnchor
Content(v) ==
    IF v.kind = "TrustAnchor"
    THEN [subject |-> Der_as_ref(v.subject),
          subject_public_key_info |-> Der_as_ref(v.subject_public_key_info),
          name_constraints |-> IF v.name_constraints.some
                               THEN Option_Some(Der_as_ref(v.name_constraints.x))
                               ELSE Option_None]
    ELSE Accessor(v)

\* the representation tag of each Der inside a value
TagOf(v) ==
    CASE v.kind = "PrivateKeyDer" -> v.key.der.tag
      [] v.kind = "TrustAnchor" ->
            [subject |-> v.subject.tag,
             subject_public_key_info |-> v.subject_public_key_info.tag,
             name_constraints |-> IF v.name_constraints.some
                                  THEN Option_Some(v.name_constraints.x.tag)
                                  ELSE Option_None]
      [] OTHER -> v.der.tag

(***************************************************************************)
(* SpecDer: a client constructing wrappers and applying their operations   *)
(***************************************************************************)
VerifyIdle ==
    /\ registry = {} /\ cert = None /\ selected = None /\ calls = 0

InitDer ==
    /\ val = [s \in Slots |-> None]
    /\ orig = [s \in Slots |-> None]
    /\ out = Idle
    /\ VerifyIdle

VerifyUnchanged == UNCHANGED <<registry, cert, selected, calls>>

\* a slot is filled once; slot 2 holds a value of the type slot 1 was constructed
\* with, so that == applies
MayConstruct(s, kind) ==
    /\ val[s] = None
    /\ s = 2 => (orig[1] # None /\ orig[1].kind = kind)

Constructed(s, v, kind, via, bytes) ==
    /\ val' = [val EXCEPT ![s] = v]
    /\ orig' = [orig EXCEPT ![s] = [kind |-> kind, via |-> via, bytes |-> bytes]]
    /\ out' = [op |-> via, slot |-> s]
    /\ VerifyUnchanged

\* T::from(&B[..])
FromSlice(s, kind, B) ==
    /\ MayConstruct(s, kind)
    /\ Constructed(s, From_slice(kind, B), kind, "from_slice", B)

\* T::from(B.to_vec())
FromVec(s, kind, B) ==
    /\ MayConstruct(s, kind)
    /\ Constructed(s, From_vec(kind, B), kind, "from_vec", B)

\* TrustAnchor { subject, subject_public_key_info, name_constraints }
NewAnchor ==
    /\ val[1] = None
    /\ \E subject \in AnchorDers, spki \in AnchorDers, nc \in AnchorOptions :
          Constructed(1, TrustAnchor(subject, spki, nc), "TrustAnchor", "new",
                      Content(TrustAnchor(subject, spki, nc)))

\* val[2] = val[1].to_owned()
ToOwnedOp ==
    /\ val[1] # None /\ val[2] = None
    /\ val[1].kind = "TrustAnchor"
    /\ Constructed(2, TrustAnchor_to_owned(val[1]), "TrustAnchor", "to_owned", orig[1].bytes)

\* v.as_ref() and the per-kind secret accessors
AsRefOp(s) ==
    /\ val[s] # None
    /\ val[s].kind \in WrapperKinds
    /\ out' = [op |-> "as_ref", slot |-> s, res |-> Accessor(val[s])]
    /\ UNCHANGED <<val, orig>> /\ VerifyUnchanged

\* *v
DerefOp(s) ==
    /\ val[s] # None
    /\ val[s].kind \in PublicKinds
    /\ out' = [op |-> "deref", slot |-> s, res |-> Deref(val[s])]
    /\ UNCHANGED <<val, orig>> /\ VerifyUnchanged

\* format!("{:?}", v)
DebugOp(s) ==
    /\ val[s] # None
    /\ out' = [op |-> "fmt", slot |-> s, res |-> Fmt(val[s])]
    /\ UNCHANGED <<val, orig>> /\ VerifyUnchanged

\* val[1] == val[2]
EqOp ==
    /\ val[1] # None /\ val[2] # None
    /\ val[1].kind = val[2].kind
    /\ out' = [op |-> "eq", slot |-> 1, res |-> Eq(val[1], val[2])]
    /\ UNCHANGED <<val, orig>> /\ VerifyUnchanged

\* val[2] = val[1].clone(); the key types are not Clone
CloneOp ==
    /\ val[1] # None /\ val[2] = None
    /\ val[1].kind \in PublicKinds \cup {"TrustAnchor"}
    /\ Constructed(2, Clone(val[1]), orig[1].kind, "clone", orig[1].bytes)

\* PrivateKeyDer::from(key): the key wrapper is moved into the enum
IntoOp(s) ==
    /\ val[s] # None
    /\ val[s].kind \in KeyKinds
    /\ val' = [val EXCEPT ![s] = Into(val[s])]
    /\ out' = [op |-> "into", slot |-> s, res |-> Accessor(val[s])]
    /\ UNCHANGED orig /\ VerifyUnchanged

\* key.secret_der()
SecretDerOp(s) ==
    /\ val[s] # None
    /\ val[s].kind = "PrivateKeyDer"
    /\ out' = [op |-> "secret_der", slot |-> s, res |-> secret_der(val[s])]
    /\ UNCHANGED <<val, orig>> /\ VerifyUnchanged

NextDer ==
    \/ \E s \in Slots, kind \in WrapperKinds, B \in ByteSeqs : FromSlice(s, kind, B)
    \/ \E s \in Slots, kind \in WrapperKinds, B \in ByteSeqs : FromVec(s, kind, B)
    \/ \E s \in Slots : AsRefOp(s)
    \/ \E s \in Slots : DerefOp(s)
    \/ \E s \in Slots : DebugOp(s)
    \/ NewAnchor
    \/ ToOwnedOp
    \/ EqOp
    \/ CloneOp
    \/ \E s \in Slots : IntoOp(s)
    \/ \E s \in Slots : SecretDerOp(s)

SpecDer == InitDer /\ [][NextDer]_vars

(***************************************************************************)
(* Properties of the wrappers, keys and trust anchors (SpecDer)            *)
(***************************************************************************)
Held(s) == val[s] # None
IsSecret(v) == v.kind \in KeyKinds \cup {"PrivateKeyDer"}
SameType(x, y) ==
    /\ x.kind = y.kind
    /\ x.kind = "PrivateKeyDer" => x.variant = y.variant

\* C1: two values of one type holding the same bytes compare equal under ==,
\* whatever their Borrowed/Owned representations, and yield identical bytes.
RepresentationTransparency ==
    (out.op = "eq" /\ Content(val[1]) = Content(val[2])) => out.res = TRUE

\* C2: the Debug text of a private key is a fixed placeholder: any two keys of
\* the same kind (the same variant, for PrivateKeyDer) format to the same text,
\* whatever bytes and representation they hold.
Redaction ==
    (out.op = "fmt" /\ IsSecret(val[out.slot])) =>
        \A t \in Slots :
            (Held(t) /\ SameType(val[out.slot], val[t])) => Fmt(val[t]) = out.res

RedactionWitness ==
    /\ out.op = "fmt" /\ out.slot = 1
    /\ Held(2) /\ IsSecret(val[1]) /\ SameType(val[1], val[2])
    /\ Content(val[1]) # Content(val[2])
    /\ Content(val[1]) # <<>>

\* C3: a wrapper built by either constructor from the bytes B yields exactly B
\* from its byte accessor (and from deref, where the type has it).
RoundTrip ==
    /\ \A s \in Slots :
          (Held(s) /\ orig[s].via \in {"from_slice", "from_vec"}
                   /\ val[s].kind \in WrapperKinds) =>
              /\ Accessor(val[s]) = orig[s].bytes
              /\ val[s].kind \in PublicKinds => Deref(val[s]) = orig[s].bytes
    /\ (out.op \in {"as_ref", "deref"} /\ orig[out.slot].via \in {"from_slice", "from_vec"})
          => out.res = orig[out.slot].bytes

RoundTripWitness ==
    /\ out.op = "as_ref"
    /\ orig[out.slot].via = "from_slice"
    /\ Len(out.res) = 2 /\ out.res[1] # out.res[2]

VariantOf(kind) ==
    CASE kind = "PrivatePkcs1KeyDer" -> "Pkcs1"
      [] kind = "PrivateSec1KeyDer" -> "Sec1"
      [] kind = "PrivatePkcs8KeyDer" -> "Pkcs8"

\* C4: a PrivateKeyDer is one of Pkcs1, Sec1, Pkcs8; converting a key wrapper
\* yields the variant of that wrapper's type, holding that wrapper, and
\* secret_der() returns the bytes the wrapper's own accessor returned.
ClosedKeySum ==
    /\ \A s \in Slots :
          (Held(s) /\ val[s].kind = "PrivateKeyDer") =>
              /\ val[s].variant \in {"Pkcs1", "Sec1", "Pkcs8"}
              /\ val[s].variant = VariantOf(orig[s].kind)
              /\ val[s].key.kind = orig[s].kind
              /\ secret_der(val[s]) = orig[s].bytes
    /\ out.op = "into" => secret_der(val[out.slot]) = out.res
    /\ out.op = "secret_der" => out.res = orig[out.slot].bytes

ClosedKeySumWitness ==
    /\ out.op = "secret_der"
    /\ val[out.slot].variant = "Sec1"
    /\ Len(out.res) = 2

\* C5: to_owned() of a TrustAnchor yields an anchor whose subject and
\* subject_public_key_info hold the same bytes, whose name_constraints is
\* present exactly when the source's is and then holds the same bytes, and
\* whose every field is Owned; the source anchor is as it was constructed.
ToOwnedFaithful ==
    (Held(2) /\ orig[2].via = "to_owned") =>
        /\ Der_as_ref(val[2].subject) = Der_as_ref(val[1].subject)
        /\ Der_as_ref(val[2].subject_public_key_info)
              = Der_as_ref(val[1].subject_public_key_info)
        /\ val[2].name_constraints.some = val[1].name_constraints.some
        /\ val[2].name_constraints.some =>
              Der_as_ref(val[2].name_constraints.x) = Der_as_ref(val[1].name_constraints.x)
        /\ val[2].subject.tag = "Owned"
        /\ val[2].subject_public_key_info.tag = "Owned"
        /\ val[2].name_constraints.some => val[2].name_constraints.x.tag = "Owned"
        /\ Content(val[1]) = orig[1].bytes

ToOwnedWitness ==
    /\ out.op = "to_owned"
    /\ val[1].subject.tag = "Borrowed"
    /\ val[1].subject_public_key_info.tag = "Owned"
    /\ val[1].name_constraints.some
    /\ val[1].name_constraints.x.tag = "Borrowed"
    /\ Der_as_ref(val[1].name_constraints.x) # <<>>

\* C6: no operation changes the bytes or the representation of a value once
\* it is constructed, and a clone holds the bytes of its source.
Immutable ==
    [][/\ \A s \in Slots :
             Held(s) => /\ val'[s] # None
                        /\ Content(val'[s]) = Content(val[s])
                        /\ TagOf(val'[s]) = TagOf(val[s])
       /\ out'.op = "clone" => Content(val'[2]) = Content(val[1])]_vars

ImmutableWitness ==
    /\ out.op = "eq"
    /\ orig[2].via = "clone"
    /\ val[1].kind \in PublicKinds
    /\ TagOf(val[1]) = "Owned"
    /\ Content(val[2]) # <<>>

\* C10: the Debug text of each private-key wrapper starts with the name of
\* that wrapper's own type.
DebugNamesOwnType ==
    (out.op = "fmt" /\ val[out.slot].kind \in KeyKinds) =>
        out.res[1] = val[out.slot].kind

(***************************************************************************)
(* AlgorithmIdentifier(&'static [u8])                                      *)
(*                                                                         *)
(* Static memory is a sequence of byte strings; a &'static [u8] is the     *)
(* place of one of them and its length.  The same constant may be present  *)
(* at more than one place (one copy per crate that spells it out).         *)
(***************************************************************************)
\* 1.2.840.113549.1.1.1 with NULL parameters (06 09 2a 86 48 86 f7 0d 01 01 01 05 00)
RSA_ENCRYPTION == <<6, 9, 42, 134, 72, 134, 247, 13, 1, 1, 1, 5, 0>>
\* sha256WithRSAEncryption, 1.2.840.113549.1.1.11 with NULL parameters
RSA_PKCS1_SHA256 == <<6, 9, 42, 134, 72, 134, 247, 13, 1, 1, 11, 5, 0>>
\* id-ecPublicKey with the prime256v1 curve
ECDSA_P256 == <<6, 7, 42, 134, 72, 206, 61, 2, 1, 6, 8, 42, 134, 72, 206, 61, 3, 1, 7>>
\* ecdsa-with-SHA256, 1.2.840.10045.4.3.2
ECDSA_SHA256 == <<6, 8, 42, 134, 72, 206, 61, 4, 3, 2>>

Statics ==
    <<RSA_ENCRYPTION, RSA_PKCS1_SHA256, ECDSA_P256, ECDSA_SHA256,
      RSA_ENCRYPTION, RSA_PKCS1_SHA256, ECDSA_SHA256>>

\* AlgorithmIdentifier::from_slice: wraps the reference, no validation
AlgorithmIdentifier_from_slice(place) == [ptr |-> place, len |-> Len(Statics[place])]

\* impl AsRef<[u8]> for AlgorithmIdentifier
AlgorithmIdentifier_as_ref(id) == SubSeq(Statics[id.ptr], 1, id.len)

\* impl Deref for AlgorithmIdentifier
AlgorithmIdentifier_deref(id) == AlgorithmIdentifier_as_ref(id)

\* variant: the references are compared, not what they refer to
AlgorithmIdentifier_eq_by_ptr(x, y) == x.ptr = y.ptr /\ x.len = y.len

\* #[derive(PartialEq)] on AlgorithmIdentifier: equality of the two slices, that
\* is equal lengths and equal bytes at every index
AlgorithmIdentifier_eq(x, y) ==
    /\ x.len = y.len
    /\ \A i \in 1..x.len : Statics[x.ptr][i] = Statics[y.ptr][i]

(***************************************************************************)
(* InvalidSignature and the SignatureVerificationAlgorithm contract        *)
(***************************************************************************)
\* variant: an error type that tells a malformed key from a wrong signature
InvalidSignature_detailed == {"InvalidSignature", "MalformedPublicKey"}

\* struct InvalidSignature; -- the values of the type: a unit struct has one
InvalidSignature == {"InvalidSignature"}

Ok == [tag |-> "Ok"]
Err(e) == [tag |-> "Err", e |-> e]

\* Result<(), InvalidSignature>, the return type of verify_signature
VerifyResult == {Ok} \cup {Err(e) : e \in InvalidSignature}

\* Abstract signatures: a key is well formed ("k1", "k2") or not ("bad"); a
\* signature is made by a key over a message and is well formed or not.
PublicKeys == {"k1", "k2", "bad"}
Messages == {"m1", "m2"}
Signatures == [by : {"k1", "k2"}, over : Messages, form : {"ok", "bad"}]

ValidSignature(public_key, message, signature) ==
    /\ public_key # "bad"
    /\ signature.form = "ok"
    /\ signature.by = public_key
    /\ signature.over = message

\* SignatureVerificationAlgorithm::verify_signature, as its documentation binds
\* every implementation: the results an implementation may return
verify_signature(public_key, message, signature) ==
    IF ValidSignature(public_key, message, signature)
    THEN {Ok}
    ELSE {r \in VerifyResult : r.tag = "Err"}

\* The implementations of the trait: each returns its two identifiers
RSA_PKCS1_2048_8192_SHA256 ==
    [name |-> "RSA_PKCS1_2048_8192_SHA256",
     public_key_alg_id |-> AlgorithmIdentifier_from_slice(1),
     signature_alg_id |-> AlgorithmIdentifier_from_slice(2)]
ECDSA_P256_SHA256 ==
    [name |-> "ECDSA_P256_SHA256",
     public_key_alg_id |-> AlgorithmIdentifier_from_slice(3),
     signature_alg_id |-> AlgorithmIdentifier_from_slice(4)]
Verifiers == {RSA_PKCS1_2048_8192_SHA256, ECDSA_P256_SHA256}

\* SignatureVerificationAlgorithm::public_key_alg_id / signature_alg_id
public_key_alg_id(v) == v.public_key_alg_id
signature_alg_id(v) == v.signature_alg_id

\* The selection protocol of the caller: a verifier is eligible when both of its
\* identifiers equal the declared ones
Eligible(v, P, S) ==
    /\ AlgorithmIdentifier_eq(public_key_alg_id(v), P)
    /\ AlgorithmIdentifier_eq(signature_alg_id(v), S)

(***************************************************************************)
(* SpecVerify: a relying party registering verifiers, selecting one for a  *)
(* certificate's declared identifiers and calling it                       *)
(***************************************************************************)
MaxCalls == 2                   \* verify_signature calls in one run

\* the identifiers a certificate parser hands over: its own copies of the constants
DeclaredPublicKeyAlgs == {AlgorithmIdentifier_from_slice(p) : p \in {3, 5}}
DeclaredSignatureAlgs == {AlgorithmIdentifier_from_slice(p) : p \in {6, 7}}

InitVerify ==
    /\ val = [s \in Slots |-> None]
    /\ orig = [s \in Slots |-> None]
    /\ out = Idle
    /\ VerifyIdle

DerUnchanged == UNCHANGED <<val, orig>>

\* the caller adds an implementation to its set
Register(v) ==
    /\ v \notin registry
    /\ cert = None
    /\ registry' = registry \cup {v}
    /\ out' = [op |-> "register"]
    /\ UNCHANGED <<cert, selected, calls>> /\ DerUnchanged

\* a certificate arrives: its declared identifiers, the issuer's key, the signed
\* bytes and the signature
Present(P, S, public_key, message, signature) ==
    /\ cert' = [kind |-> "cert", public_key_alg |-> P, signature_alg |-> S,
                public_key |-> public_key, message |-> message, signature |-> signature]
    /\ selected' = None
    /\ out' = [op |-> "present"]
    /\ UNCHANGED <<registry, calls>> /\ DerUnchanged

\* selection: unsupported-algorithm when no registered verifier is eligible,
\* otherwise one of the eligible verifiers
Select ==
    /\ cert # None
    /\ out.op = "present"
    /\ LET eligible == {v \in registry : Eligible(v, cert.public_key_alg, cert.signature_alg)}
       IN  IF eligible = {}
           THEN /\ selected' = None
                /\ out' = [op |-> "select", res |-> "UnsupportedAlgorithm"]
           ELSE \E v \in eligible :
                /\ selected' = v
                /\ out' = [op |-> "select", res |-> "Selected"]
    /\ UNCHANGED <<registry, cert, calls>> /\ DerUnchanged

\* the selected verifier is called on the certificate's key, message and signature
Verify ==
    /\ selected # None
    /\ out.op = "select"
    /\ calls < MaxCalls
    /\ \E r \in verify_signature(cert.public_key, cert.message, cert.signature) :
          out' = [op |-> "verify", res |-> r]
    /\ calls' = calls + 1
    /\ UNCHANGED <<registry, cert, selected>> /\ DerUnchanged

NextVerify ==
    \/ \E v \in Verifiers : Register(v)
    \/ \E P \in DeclaredPublicKeyAlgs, S \in DeclaredSignatureAlgs,
          public_key \in PublicKeys, message \in Messages, signature \in Signatures :
            Present(P, S, public_key, message, signature)
    \/ Select
    \/ Verify

SpecVerify == InitVerify /\ [][NextVerify]_vars

(***************************************************************************)
(* Properties of selection and of the verification contract (SpecVerify)   *)
(***************************************************************************)
ByteEqual(x, y) == AlgorithmIdentifier_as_ref(x) = AlgorithmIdentifier_as_ref(y)
BytesMatch(v) ==
    /\ ByteEqual(v.public_key_alg_id, cert.public_key_alg)
    /\ ByteEqual(v.signature_alg_id, cert.signature_alg)

\* C7: selection reports unsupported-algorithm exactly when no registered
\* verifier has both identifiers byte-for-byte equal to the declared ones, and
\* otherwise picks a registered verifier whose identifiers are; verify_signature
\* is called only on such a verifier.  With the RSA verifier alone registered,
\* declaring rsaEncryption / RSA-PKCS1-SHA256 selects it and declaring an
\* ECDSA signature identifier reports unsupported-algorithm.
IdentifierSelection ==
    /\ out.op = "select" =>
          /\ out.res = "UnsupportedAlgorithm" <=> ~ \E v \in registry : BytesMatch(v)
          /\ out.res = "UnsupportedAlgorithm" => selected = None
          /\ out.res = "Selected" => (selected \in registry /\ BytesMatch(selected))
    /\ out.op = "verify" => (selected \in registry /\ BytesMatch(selected))
    /\ (out.op = "select" /\ registry = {RSA_PKCS1_2048_8192_SHA256}) =>
          /\ (/\ AlgorithmIdentifier_as_ref(cert.public_key_alg) = RSA_ENCRYPTION
              /\ AlgorithmIdentifier_as_ref(cert.signature_alg) = RSA_PKCS1_SHA256)
                => selected = RSA_PKCS1_2048_8192_SHA256
          /\ AlgorithmIdentifier_as_ref(cert.signature_alg) = ECDSA_SHA256
                => out.res = "UnsupportedAlgorithm"

IdentifierSelectionWitness ==
    /\ out.op = "select" /\ out.res = "Selected"
    /\ registry = {RSA_PKCS1_2048_8192_SHA256}
    /\ selected.public_key_alg_id.ptr # cert.public_key_alg.ptr
    /\ selected.signature_alg_id.ptr # cert.signature_alg.ptr

\* C8: verify_signature has two outcomes: Ok(()), only for a valid signature
\* on the message, and otherwise the one InvalidSignature value, whether the
\* signature is wrong, the message differs, or the key or signature is
\* malformed.
VerificationOutcomes ==
    out.op = "verify" =>
        /\ out.res \in {[tag |-> "Ok"], [tag |-> "Err", e |-> "InvalidSignature"]}
        /\ out.res.tag = "Ok" =>
              ValidSignature(cert.public_key, cert.message, cert.signature)
        /\ ~ ValidSignature(cert.public_key, cert.message, cert.signature) =>
              out.res = [tag |-> "Err", e |-> "InvalidSignature"]

VerificationOutcomesWitness ==
    /\ out.op = "verify"
    /\ cert.public_key = "bad"
    /\ cert.signature.form = "ok"
    /\ out.res.tag = "Err"

(***************************************************************************)
(* UnixTime(u64)                                                           *)
(***************************************************************************)
MaxSecs == 2                    \* largest small second count tried

\* core::time::Duration: whole seconds and the nanoseconds below one second
SecsTried == (0..MaxSecs) \cup {1700000000}
NanosTried == {0, 1, 499999999, 500000000, 999999999}
Durations == [secs : SecsTried, nanos : NanosTried]

\* Duration::as_secs: the whole seconds, without the sub-second part
Duration_as_secs(duration) == duration.secs

\* variant: the seconds rounded to the nearest whole second
UnixTime_since_unix_epoch_rounding(duration) ==
    [kind |-> "UnixTime",
     secs |-> IF duration.nanos >= 500000000 THEN duration.secs + 1 ELSE duration.secs]

\* UnixTime::since_unix_epoch
UnixTime_since_unix_epoch(duration) ==
    [kind |-> "UnixTime", secs |-> Duration_as_secs(duration)]

\* UnixTime::as_secs
UnixTime_as_secs(t) == t.secs

\* #[derive(PartialOrd)] on UnixTime: the comparison of the u64 inside
UnixTime_partial_cmp(x, y) ==
    IF x.secs < y.secs THEN "Less" ELSE IF x.secs = y.secs THEN "Equal" ELSE "Greater"

(***************************************************************************)
(* SpecTime: a validator building UnixTime values and comparing them       *)
(***************************************************************************)
InitTime ==
    /\ val = [s \in Slots |-> None]
    /\ orig = [s \in Slots |-> None]
    /\ out = Idle
    /\ VerifyIdle

\* val[s] = UnixTime::since_unix_epoch(duration)
SinceUnixEpoch(s, duration) ==
    /\ val' = [val EXCEPT ![s] = UnixTime_since_unix_epoch(duration)]
    /\ orig' = [orig EXCEPT ![s] = [kind |-> "UnixTime", via |-> "since_unix_epoch",
                                    duration |-> duration]]
    /\ out' = [op |-> "since_unix_epoch", slot |-> s]
    /\ VerifyUnchanged

\* val[s] = UnixTime::now(): the clock's duration since the epoch, then
\* since_unix_epoch
Now(s, clock) ==
    /\ val' = [val EXCEPT ![s] = UnixTime_since_unix_epoch(clock)]
    /\ orig' = [orig EXCEPT ![s] = [kind |-> "UnixTime", via |-> "now", duration |-> clock]]
    /\ out' = [op |-> "now", slot |-> s]
    /\ VerifyUnchanged

\* val[s].as_secs()
AsSecs(s) ==
    /\ val[s] # None
    /\ out' = [op |-> "as_secs", slot |-> s, res |-> UnixTime_as_secs(val[s])]
    /\ UNCHANGED <<val, orig>> /\ VerifyUnchanged

\* val[1].partial_cmp(&val[2])
Compare ==
    /\ val[1] # None /\ val[2] # None
    /\ out' = [op |-> "partial_cmp", slot |-> 1, res |-> UnixTime_partial_cmp(val[1], val[2])]
    /\ UNCHANGED <<val, orig>> /\ VerifyUnchanged

NextTime ==
    \/ \E s \in Slots, duration \in Durations : SinceUnixEpoch(s, duration)
    \/ \E s \in Slots, clock \in Durations : Now(s, clock)
    \/ \E s \in Slots : AsSecs(s)
    \/ Compare

SpecTime == InitTime /\ [][NextTime]_vars

\* C9: as_secs() of since_unix_epoch(d) is the whole seconds of d, whatever the
\* sub-second part of d (never rounded up); 1700000000 seconds give 1700000000;
\* two UnixTime values compare as their second counts do.
WholeSeconds ==
    /\ \A s \in Slots :
          Held(s) =>
              /\ UnixTime_as_secs(val[s]) = orig[s].duration.secs
              /\ orig[s].duration.secs = 1700000000 => UnixTime_as_secs(val[s]) = 1700000000
    /\ out.op = "as_secs" => out.res = orig[out.slot].duration.secs
    /\ out.op = "partial_cmp" =>
          /\ out.res = "Less" <=> orig[1].duration.secs < orig[2].duration.secs
          /\ out.res = "Equal" <=> orig[1].duration.secs = orig[2].duration.secs
          /\ out.res = "Greater" <=> orig[1].duration.secs > orig[2].duration.secs

WholeSecondsWitness ==
    /\ out.op = "as_secs"
    /\ orig[out.slot].via = "since_unix_epoch"
    /\ orig[out.slot].duration.nanos = 999999999
    /\ out.res = 1700000000

====
